---- MODULE Spec2Model ----
(***************************************************************************)
(* Model of PWR110Calculator.py: the ISO 24817 composite-repair sizing     *)
(* pipeline run_calculation and the Streamlit session that drives it.      *)
(*                                                                         *)
(* The widgets hold the decimal numbers the operator typed:                *)
(*   wall, rem_wall   hundredths of a millimetre  (953   = 9.53 mm)        *)
(*   temp             tenths of a degree Celsius  (555   = 55.5 C)         *)
(*   design_factor    hundredths                  (72    = 0.72)           *)
(*   yield_strength   MPa                                                  *)
(*   od, pressure, length                                                  *)
(*                    [n, k] for the decimal n * 10^k, in mm, bar and mm   *)
(*                    ([n |-> 4572, k |-> -1] = 457.2, [n |-> 1, k |-> 200]*)
(*                    = 1e200: these widgets have no min_value and no      *)
(*                    max_value)                                           *)
(* st.number_input hands run_calculation the Python float nearest to the   *)
(* typed decimal, and the pipeline computes in IEEE-754 binary64 with      *)
(* round-to-nearest-even.  The model does the same arithmetic on records   *)
(* [k, s, m, e]: finite floats of value s * m * 2^e (m a little-endian     *)
(* sequence of 14-bit limbs), signed zeros, infinities and nan.  Every     *)
(* operation rounds, overflows to inf and underflows through the           *)
(* subnormals to zero as the hardware does, and every Python exception of  *)
(* the pipeline (ZeroDivisionError, and OverflowError or ValueError of     *)
(* math.ceil) ends the call as it does in the program.                     *)
(***************************************************************************)
EXTENDS Integers, FiniteSets, Sequences

VARIABLES widgets, calc_active, force_3_layers, errors, result, upgrade_button,
          rerun_pending, upgrade_clicked, last_event, memo

vars == <<widgets, calc_active, force_3_layers, errors, result, upgrade_button,
          rerun_pending, upgrade_clicked, last_event, memo>>

(***************************************************************************)
(* PROWRAP certified data (lines 13-24) and the literals of the pipeline,  *)
(* as the decimal digits written in the source.                            *)
(***************************************************************************)
\* "ply_thickness": 0.83 mm, in hundredths of a millimetre
PlyThicknessC == 83
\* "modulus_circ": 45460 MPa
ModulusCirc == 45460
\* "strain_fail": 0.0233, in units of 1e-4
StrainFailE4 == 233
\* "lap_shear": 7.37 MPa, in hundredths
LapShearC == 737
\* "max_temp": 55.5 C, in tenths of a degree
MaxTempT == 555
\* "cloth_width_mm": 300
ClothWidth == 300
\* "stitching_overlap_mm": 50 (never read by the pipeline)
StitchingOverlap == 50
\* is_severe_loss = wall_loss_ratio > 0.65, in percent
SevereLossPct == 65
\* temp_factor = 0.95 if temp > 40 else 1.0: the threshold in degrees
TempDerate == 40
\* temp_factor above the threshold, in hundredths
TempFactorHotC == 95
\* pressure_mpa = pressure * 0.1: the factor in tenths
BarToMpaT == 1
\* min_plies = 4 if defect_type == "Leak" else 2
LeakMinPlies == 4
GeneralMinPlies == 2
\* the operator-forced floor of the 3-layer upgrade
ForcedPlies == 3
\* overlap_length = max(50.0, 3.0 * final_thickness)
MinOverlap == 50
TaperMult == 3
\* num_bands = ceil((total - 300) / 250) + 1; procurement = num_bands * 300
BandLength == 300
BandStep == 250
\* millimetres per metre, lines 177-178
MmPerM == 1000
\* epoxy_kg = optimized_sqm * 1.2, in tenths
EpoxyCoefT == 12

(***************************************************************************)
(* Naturals of any size: little-endian sequences of limbs below LimbBase,  *)
(* without a leading zero limb (zero is the empty sequence).  An operation  *)
(* on more than LinearLimbs limbs works by halves, so that the depth of    *)
(* its recursion stays small on the long naturals of extreme inputs.       *)
(***************************************************************************)
LimbBits == 14
LimbBase == 16384
LinearLimbs == 8

\* Limbs, naturals, the three signs, the kinds of float, floats
Limb == 0..(LimbBase - 1)
Big == Seq(Limb)
Sign == {-1, 0, 1}
Kinds == {"finite", "inf", "nan"}
Float == [k : Kinds, s : Sign, m : Big, e : Int]

\* A quotient with its remainder, by one limb and by a natural; an exact sum
QuoLimb == [q : Big, r : Limb]
QuoRem == [q : Big, r : Big]
Exact == [s : Sign, n : Big, e : Int]

Pow2[k \in Nat] == IF k = 0 THEN 1 ELSE 2 * Pow2[k - 1]

\* the lowest limb of a, zero when a has none
BLow(a) == IF a = <<>> THEN 0 ELSE a[1]

\* the limbs of a above the h lowest
BHigh(a, h) == IF Len(a) <= h THEN <<>> ELSE SubSeq(a, h + 1, Len(a))

\* s without its leading zero limbs
BStrip[s \in Big] ==
    IF s = <<>> \/ s[Len(s)] # 0 THEN s
    ELSE IF \A i \in 1..Len(s) : s[i] = 0 THEN <<>>
    ELSE SubSeq(s, 1, Len(s) - (CHOOSE z \in 0..(Len(s) - 1) :
                                   /\ s[Len(s) - z] # 0
                                   /\ \A j \in 0..(z - 1) : s[Len(s) - j] = 0))

BFromNat[n \in Nat] == IF n = 0 THEN <<>> ELSE <<n % LimbBase>> \o BFromNat[n \div LimbBase]

BOne == <<1>>

\* the n lowest limbs of a + b + c and the carry out, n + 1 limbs in all; the
\* sum is taken by halves, the carry of the low half entering the high half
BAddN[a \in Big, b \in Big, c \in Limb, n \in Nat] ==
    IF n = 0 THEN <<c>>
    ELSE IF n <= LinearLimbs
         THEN LET x == BLow(a) + BLow(b) + c
              IN  <<x % LimbBase>> \o BAddN[BHigh(a, 1), BHigh(b, 1), x \div LimbBase, n - 1]
    ELSE LET h == n \div 2
             High[lo \in Big] ==
                 SubSeq(lo, 1, h) \o BAddN[BHigh(a, h), BHigh(b, h), lo[h + 1], n - h]
         IN  High[BAddN[a, b, c, h]]

\* a + b + c
BAddC[a \in Big, b \in Big, c \in Limb] ==
    BStrip[BAddN[a, b, c, IF Len(a) < Len(b) THEN Len(b) ELSE Len(a)]]

BAdd[a \in Big, b \in Big] == BAddC[a, b, 0]

\* the n lowest limbs of a - b - c and the borrow out, n + 1 limbs in all
BSubN[a \in Big, b \in Big, c \in Limb, n \in Nat] ==
    IF n = 0 THEN <<c>>
    ELSE IF n <= LinearLimbs
         THEN LET x == BLow(a) - BLow(b) - c
              IN  <<x % LimbBase>>
                  \o BSubN[BHigh(a, 1), BHigh(b, 1), IF x < 0 THEN 1 ELSE 0, n - 1]
    ELSE LET h == n \div 2
             High[lo \in Big] ==
                 SubSeq(lo, 1, h) \o BSubN[BHigh(a, h), BHigh(b, h), lo[h + 1], n - h]
         IN  High[BSubN[a, b, c, h]]

\* a - b for a >= b
BSub[a \in Big, b \in Big] == BStrip[SubSeq(BSubN[a, b, 0, Len(a)], 1, Len(a))]

\* -1, 0, 1 as a < b, a = b, a > b for two naturals of equal length: the
\* highest limb that differs decides
BCmpTop[a \in Big, b \in Big] ==
    IF a = b THEN 0
    ELSE IF a[Len(a)] # b[Len(a)] THEN (IF a[Len(a)] < b[Len(a)] THEN -1 ELSE 1)
    ELSE LET i == Len(a) - (CHOOSE z \in 0..(Len(a) - 1) :
                               /\ a[Len(a) - z] # b[Len(a) - z]
                               /\ \A j \in 0..(z - 1) : a[Len(a) - j] = b[Len(a) - j])
         IN  IF a[i] < b[i] THEN -1 ELSE 1

BCmp[a \in Big, b \in Big] ==
    IF Len(a) # Len(b) THEN (IF Len(a) < Len(b) THEN -1 ELSE 1)
    ELSE BCmpTop[a, b]

\* a * d + c for one limb d: Len(a) limbs and the carry out, by halves
BMulLimbN[a \in Big, d \in Limb, c \in Limb] ==
    IF a = <<>> THEN <<c>>
    ELSE IF Len(a) <= LinearLimbs
         THEN LET x == a[1] * d + c
              IN  <<x % LimbBase>> \o BMulLimbN[Tail(a), d, x \div LimbBase]
    ELSE LET h == Len(a) \div 2
             High[lo \in Big] == SubSeq(lo, 1, h) \o BMulLimbN[BHigh(a, h), d, lo[h + 1]]
         IN  High[BMulLimbN[SubSeq(a, 1, h), d, c]]

BMulLimb[a \in Big, d \in Limb] == BStrip[BMulLimbN[a, d, 0]]

\* a * LimbBase^q
BShiftLimbs[a \in Big, q \in Nat] == IF a = <<>> THEN a ELSE [i \in 1..q |-> 0] \o a

\* a * b, by halves of b
BMul[a \in Big, b \in Big] ==
    IF a = <<>> \/ b = <<>> THEN <<>>
    ELSE IF Len(b) = 1 THEN BMulLimb[a, b[1]]
    ELSE IF Len(b) <= LinearLimbs
         THEN BAdd[BMulLimb[a, Head(b)], BShiftLimbs[BMul[a, Tail(b)], 1]]
    ELSE BAdd[BMul[a, SubSeq(b, 1, Len(b) \div 2)],
              BShiftLimbs[BMul[a, BHigh(b, Len(b) \div 2)], Len(b) \div 2]]

\* the quotient limbs lo.q of a low half below the limbs hi.q of the high half
BDivLimbJoin[hi \in QuoLimb, lo \in QuoLimb] == [q |-> lo.q \o hi.q, r |-> lo.r]

\* quotient (Len(a) limbs) and remainder of r * LimbBase^Len(a) + a by one
\* limb d > r: the high half first, its remainder entering the low half
BDivLimbN[a \in Big, d \in Limb, r \in Limb] ==
    IF a = <<>> THEN [q |-> <<>>, r |-> r]
    ELSE IF Len(a) <= LinearLimbs
         THEN LET x == r * LimbBase + a[Len(a)]
              IN  BDivLimbJoin[[q |-> <<x \div d>>, r |-> x % d],
                               BDivLimbN[SubSeq(a, 1, Len(a) - 1), d, x % d]]
    ELSE LET h == Len(a) \div 2
             Low[hi \in QuoLimb] == BDivLimbJoin[hi, BDivLimbN[SubSeq(a, 1, h), d, hi.r]]
         IN  Low[BDivLimbN[BHigh(a, h), d, r]]

\* floor(a / d) for one limb d > 0
BDivLimb[a \in Big, d \in Limb] == BStrip[BDivLimbN[a, d, 0].q]

\* a mod d for one limb d > 0
BModLimb[a \in Big, d \in Limb] == BFromNat[BDivLimbN[a, d, 0].r]

IntBits[n \in Nat] == IF n = 0 THEN 0 ELSE 1 + IntBits[n \div 2]

BBitLen[a \in Big] == IF a = <<>> THEN 0 ELSE LimbBits * (Len(a) - 1) + IntBits[a[Len(a)]]

\* a * 2^k
BShl[a \in Big, k \in Nat] ==
    BShiftLimbs[BMulLimb[a, Pow2[k % LimbBits]], k \div LimbBits]

\* floor(a / 2^k)
BShr[a \in Big, k \in Nat] ==
    IF k \div LimbBits >= Len(a) THEN <<>>
    ELSE BDivLimb[SubSeq(a, (k \div LimbBits) + 1, Len(a)), Pow2[k % LimbBits]]

\* the largest limb t + j, 0 <= j < 2w, with d * (t + j) <= r
BDigit[r \in Big, d \in Big, t \in Limb, w \in Limb] ==
    IF w = 0 THEN t
    ELSE IF BCmp[BMulLimb[d, t + w], r] <= 0 THEN BDigit[r, d, t + w, w \div 2]
    ELSE BDigit[r, d, t, w \div 2]

\* one step of long division: the quotient limb t of x by d, and what is left
BDivPut[x \in Big, d \in Big, t \in Limb] ==
    [q |-> <<t>>, r |-> IF t = 0 THEN x ELSE BSub[x, BMulLimb[d, t]]]

BDivTake[x \in Big, d \in Big] ==
    BDivPut[x, d, IF BCmp[x, d] < 0 THEN 0 ELSE BDigit[x, d, 0, LimbBase \div 2]]

BDivJoin[hi \in QuoRem, lo \in QuoRem] == [q |-> lo.q \o hi.q, r |-> lo.r]

\* schoolbook long division of r * LimbBase^Len(n) + n by d > r: quotient
\* (Len(n) limbs) and remainder, the high half first
BDivN[n \in Big, d \in Big, r \in Big] ==
    IF n = <<>> THEN [q |-> <<>>, r |-> r]
    ELSE IF Len(n) = 1 THEN BDivTake[BStrip[n \o r], d]
    ELSE LET h == Len(n) \div 2
             Low[hi \in QuoRem] == BDivJoin[hi, BDivN[SubSeq(n, 1, h), d, hi.r]]
         IN  Low[BDivN[BHigh(n, h), d, r]]

BDivStrip[st \in QuoRem] == [q |-> BStrip[st.q], r |-> st.r]

\* floor(n / d) and n mod d, d > 0
BDivMod[n \in Big, d \in Big] ==
    IF Len(d) = 1 THEN [q |-> BDivLimb[n, d[1]], r |-> BModLimb[n, d[1]]]
    ELSE BDivStrip[BDivN[n, d, <<>>]]

IntTrailingZeros[n \in Nat] == IF n % 2 = 1 THEN 0 ELSE 1 + IntTrailingZeros[n \div 2]

\* number of zero limbs below the lowest non-zero limb of a > 0
BZeroLimbs[a \in Big] ==
    CHOOSE z \in 0..(Len(a) - 1) : a[z + 1] # 0 /\ \A j \in 1..z : a[j] = 0

\* number of trailing zero bits of a > 0
BTrailingZeros[a \in Big] ==
    LimbBits * BZeroLimbs[a] + IntTrailingZeros[a[BZeroLimbs[a] + 1]]

(***************************************************************************)
(* The Python floats: IEEE-754 binary64.  A finite float is s * m * 2^e    *)
(* with s in {-1, 1} and m odd, or a signed zero (m empty, e = 0); the     *)
(* significand has at most SigBits bits, the last bit is worth at least    *)
(* 2^MinExp (below 2^-1022 the floats are subnormal and lose precision),   *)
(* and a magnitude that rounds to 2^MaxExp or more is infinite.  inf has a *)
(* sign; nan has none.                                                     *)
(***************************************************************************)
SigBits == 53
MinExp == -1074
MaxExp == 1024

FZero == [k |-> "finite", s |-> 1, m |-> <<>>, e |-> 0]
FNaN == [k |-> "nan", s |-> 1, m |-> <<>>, e |-> 0]

\* 0.0 and -0.0, inf and -inf
FSignedZero[s \in Sign] == [k |-> "finite", s |-> s, m |-> <<>>, e |-> 0]
FInf[s \in Sign] == [k |-> "inf", s |-> s, m |-> <<>>, e |-> 0]

\* x == 0.0 (either sign)
FIsZero[x \in Float] == x.k = "finite" /\ x.m = <<>>

\* s * n * 2^e for a natural n > 0 with z trailing zero bits
FCanonAt[s \in Sign, n \in Big, e \in Int, z \in Nat] ==
    [k |-> "finite", s |-> s, m |-> BShr[n, z], e |-> e + z]

FCanon[s \in Sign, n \in Big, e \in Int] == FCanonAt[s, n, e, BTrailingZeros[n]]

\* the float of the rounded significand n at exponent e: a zero when nothing
\* is left of a subnormal, inf when the magnitude has reached 2^MaxExp
FPack[s \in Sign, n \in Big, e \in Int] ==
    IF n = <<>> THEN FSignedZero[s]
    ELSE IF BBitLen[n] + e > MaxExp THEN FInf[s]
    ELSE FCanon[s, n, e]

\* n and d scaled for a quotient n * 2^sh / d
BScaleNum[n \in Big, sh \in Int] == IF sh >= 0 THEN BShl[n, sh] ELSE n
BScaleDen[d \in Big, sh \in Int] == IF sh >= 0 THEN d ELSE BShl[d, -sh]

\* the sh with 2^52 <= floor(n * 2^sh / d) < 2^53, from a first guess sh0
FShiftFrom[n \in Big, d \in Big, sh0 \in Int] ==
    IF BCmp[BScaleNum[n, sh0], BShl[BScaleDen[d, sh0], SigBits - 1]] < 0 THEN sh0 + 1 ELSE sh0

\* the shift of a normal result, cut where the last bit would fall below
\* 2^MinExp (subnormal result)
FShiftAbove[sh \in Int, e \in Int] == IF e - sh < MinExp THEN e - MinExp ELSE sh

FShift[n \in Big, d \in Big, e \in Int] ==
    FShiftAbove[FShiftFrom[n, d, (SigBits - 1) - (BBitLen[n] - BBitLen[d])], e]

\* the quotient qr.q with remainder qr.r of a division by d1, rounded half to even
FRoundQuot[s \in Sign, qr \in QuoRem, d1 \in Big, e \in Int] ==
    LET c == BCmp[BAdd[qr.r, qr.r], d1]
    IN  FPack[s, IF c > 0 \/ (c = 0 /\ qr.q # <<>> /\ qr.q[1] % 2 = 1)
                 THEN BAddC[qr.q, <<>>, 1] ELSE qr.q, e]

FRoundAt[s \in Sign, n \in Big, d \in Big, e \in Int, sh \in Int] ==
    FRoundQuot[s, BDivMod[BScaleNum[n, sh], BScaleDen[d, sh]], BScaleDen[d, sh], e - sh]

\* round-to-nearest-even of s * (n / d) * 2^e to binary64, n > 0, d > 0
FRound[s \in Sign, n \in Big, d \in Big, e \in Int] == FRoundAt[s, n, d, e, FShift[n, d, e]]

Abs[n \in Int] == IF n < 0 THEN -n ELSE n
Sgn[n \in Int] == IF n < 0 THEN -1 ELSE IF n = 0 THEN 0 ELSE 1

\* float(n)
FFromInt[n \in Int] == IF n = 0 THEN FZero ELSE FCanon[Sgn[n], BFromNat[Abs[n]], 0]

\* the double nearest to the decimal n / d
FFromDec[n \in Int, d \in Nat] ==
    IF n = 0 THEN FZero ELSE FRound[Sgn[n], BFromNat[Abs[n]], BFromNat[d], 0]

BSquare[a \in Big] == BMul[a, a]

\* 10^k, by squaring
BPow10[k \in Nat] ==
    IF k = 0 THEN BOne
    ELSE IF k % 2 = 0 THEN BSquare[BPow10[k \div 2]]
    ELSE BMulLimb[BSquare[BPow10[k \div 2]], 10]

\* the double nearest to the decimal n * 10^k, as typed "n e k"
FFromSci[n \in Int, k \in Int] ==
    IF n = 0 THEN FZero
    ELSE IF k >= 0 THEN FRound[Sgn[n], BMul[BFromNat[Abs[n]], BPow10[k]], BOne, 0]
    ELSE FRound[Sgn[n], BFromNat[Abs[n]], BPow10[-k], 0]

\* -x
FNeg[x \in Float] == IF x.k = "nan" THEN x ELSE [x EXCEPT !.s = -x.s]

\* x * y: nan for inf * 0, a signed inf or zero, or the rounded product
FMul[x \in Float, y \in Float] ==
    IF x.k = "nan" \/ y.k = "nan" THEN FNaN
    ELSE IF x.k = "inf" \/ y.k = "inf"
         THEN (IF FIsZero[x] \/ FIsZero[y] THEN FNaN ELSE FInf[x.s * y.s])
    ELSE IF x.m = <<>> \/ y.m = <<>> THEN FSignedZero[x.s * y.s]
    ELSE FRound[x.s * y.s, BMul[x.m, y.m], BOne, x.e + y.e]

\* x / y for y # 0.0 (Python raises on a zero divisor before it divides, see
\* Raises): nan for inf / inf, a signed inf or zero, or the rounded quotient
FDiv[x \in Float, y \in Float] ==
    IF x.k = "nan" \/ y.k = "nan" \/ FIsZero[y] THEN FNaN
    ELSE IF x.k = "inf" THEN (IF y.k = "inf" THEN FNaN ELSE FInf[x.s * y.s])
    ELSE IF y.k = "inf" \/ x.m = <<>> THEN FSignedZero[x.s * y.s]
    ELSE FRound[x.s * y.s, x.m, y.m, x.e - y.e]

\* sign and magnitude [s, n, e] of sx * a * 2^e + sy * b * 2^e, c being BCmp[a, b]
FExactOrdered[sx \in Sign, a \in Big, sy \in Sign, b \in Big, e \in Int, c \in Sign] ==
    IF sx = sy THEN [s |-> sx, n |-> BAdd[a, b], e |-> e]
    ELSE IF c = 0 THEN [s |-> 0, n |-> <<>>, e |-> 0]
    ELSE IF c > 0 THEN [s |-> sx, n |-> BSub[a, b], e |-> e]
    ELSE [s |-> sy, n |-> BSub[b, a], e |-> e]

FExactAligned[sx \in Sign, a \in Big, sy \in Sign, b \in Big, e \in Int] ==
    FExactOrdered[sx, a, sy, b, e, BCmp[a, b]]

\* sign and magnitude [s, n, e] of the exact x + y of two finite non-zero floats
FExactSum[x \in Float, y \in Float] ==
    LET e0 == IF x.e < y.e THEN x.e ELSE y.e
    IN  FExactAligned[x.s, BShl[x.m, x.e - e0], y.s, BShl[y.m, y.e - e0], e0]

\* an exact sum rounded; an exact zero sum is 0.0
FRoundSum[z \in Exact] ==
    IF z.s = 0 THEN FZero ELSE FRound[z.s, z.n, BOne, z.e]

\* x + y: nan for inf + -inf, an inf, a zero (-0.0 only as -0.0 + -0.0), or
\* the rounded sum
FAdd[x \in Float, y \in Float] ==
    IF x.k = "nan" \/ y.k = "nan" THEN FNaN
    ELSE IF x.k = "inf" THEN (IF y.k = "inf" /\ y.s # x.s THEN FNaN ELSE x)
    ELSE IF y.k = "inf" THEN y
    ELSE IF x.m = <<>>
         THEN (IF y.m = <<>> THEN FSignedZero[IF x.s < 0 /\ y.s < 0 THEN -1 ELSE 1] ELSE y)
    ELSE IF y.m = <<>> THEN x
    ELSE FRoundSum[FExactSum[x, y]]

FSub[x \in Float, y \in Float] == FAdd[x, FNeg[y]]

\* x > y of two finite floats
FGtFinite[x \in Float, y \in Float] ==
    IF x.m = <<>> THEN y.m # <<>> /\ y.s < 0
    ELSE IF y.m = <<>> THEN x.s > 0
    ELSE FExactSum[x, FNeg[y]].s > 0

\* x > y: False when either is nan
FGt[x \in Float, y \in Float] ==
    IF x.k = "nan" \/ y.k = "nan" THEN FALSE
    ELSE IF x.k = "inf" THEN x.s > 0 /\ ~(y.k = "inf" /\ y.s > 0)
    ELSE IF y.k = "inf" THEN y.s < 0
    ELSE FGtFinite[x, y]

\* x <= y: False when either is nan
FLeq[x \in Float, y \in Float] == x.k # "nan" /\ y.k # "nan" /\ ~FGt[x, y]

\* max(x, y) of Python: y when y > x, else x
FMax[x \in Float, y \in Float] == IF FGt[y, x] THEN y ELSE x

(***************************************************************************)
(* The Python ints, which have no largest value: sign and magnitude, zero  *)
(* being s = 0 with the empty magnitude.                                   *)
(***************************************************************************)
PyInt == [s : Sign, n : Big]

ZZero == [s |-> 0, n |-> <<>>]

\* the int written k
ZFromInt[k \in Int] == [s |-> Sgn[k], n |-> BFromNat[Abs[k]]]

\* the int of sign s and magnitude n
ZFromMag[s \in Sign, n \in Big] == IF n = <<>> THEN ZZero ELSE [s |-> s, n |-> n]

ZFromExact[z \in Exact] == [s |-> z.s, n |-> z.n]

ZNeg[a \in PyInt] == [s |-> -a.s, n |-> a.n]

\* a + b, a * b
ZAdd[a \in PyInt, b \in PyInt] == ZFromExact[FExactAligned[a.s, a.n, b.s, b.n, 0]]
ZMul[a \in PyInt, b \in PyInt] == ZFromMag[a.s * b.s, BMul[a.n, b.n]]

\* a < b, a <= b
ZLt[a \in PyInt, b \in PyInt] == ZAdd[a, ZNeg[b]].s < 0
ZLeq[a \in PyInt, b \in PyInt] == ~ZLt[b, a]

\* max(a, b) of Python: b when b > a, else a
ZMax[a \in PyInt, b \in PyInt] == IF ZLt[a, b] THEN b ELSE a

\* float(a), as an int operand of a float operation is converted; inf stands
\* for the OverflowError of an int too large for a float
FFromZ[a \in PyInt] == IF a.s = 0 THEN FZero ELSE FRound[a.s, a.n, BOne, 0]

\* a / b of two ints, b # 0: the exact quotient, rounded once; inf stands for
\* the OverflowError of a quotient too large for a float
FDivZ[a \in PyInt, b \in PyInt] ==
    IF a.s = 0 THEN FZero ELSE FRound[a.s * b.s, a.n, b.n, 0]

\* math.ceil(x) of a finite x: an int
FCeil[x \in Float] ==
    IF x.m = <<>> THEN ZZero
    ELSE IF x.e >= 0 THEN [s |-> x.s, n |-> BShl[x.m, x.e]]
    ELSE IF x.s > 0 THEN [s |-> 1, n |-> BAddC[BShr[x.m, -x.e], <<>>, 1]]
    ELSE ZFromMag[-1, BShr[x.m, -x.e]]

(***************************************************************************)
(* The float literals of the source.                                       *)
(***************************************************************************)
PlyThickness == FFromDec[PlyThicknessC, 100]
StrainFail == FFromDec[StrainFailE4, 10000]
LapShear == FFromDec[LapShearC, 100]
MaxTemp == FFromDec[MaxTempT, 10]
SevereLoss == FFromDec[SevereLossPct, 100]
TempFactorHot == FFromDec[TempFactorHotC, 100]
TempFactorCold == FFromInt[1]
BarToMpa == FFromDec[BarToMpaT, 10]
EpoxyCoef == FFromDec[EpoxyCoefT, 10]
\* math.pi = 884279719003555 * 2^-48
MathPi == [k |-> "finite", s |-> 1, m |-> <<1443, 10786, 1014, 201>>, e |-> -48]

\* The selectbox options of lines 313-314.
Mechanisms == {"Corrosion", "Dent", "Leak", "Crack"}
Locations == {"External", "Internal"}

\* The arguments of run_calculation that the pipeline reads; customer,
\* location and report_no are copied to the report unchanged and are left out.
Args ==
    [od : Float, wall : Float, yield_strength : Float, pressure : Float,
     temp : Float, defect_type : Mechanisms, defect_loc : Locations,
     length : Float, rem_wall : Float, design_factor : Float]

\* The float of the typed decimal d = [n, k]
Typed(d) == FFromSci[d.n, d.k]

(***************************************************************************)
(* The floats st.number_input returns for the typed decimals (lines        *)
(* 304-319); the selectbox values pass unchanged.                          *)
(***************************************************************************)
NumberInputs(w) ==
    [od             |-> Typed(w.od),
     wall           |-> FFromDec[w.wall, 100],
     yield_strength |-> FFromInt[w.yield_strength],
     pressure       |-> Typed(w.pressure),
     temp           |-> FFromDec[w.temp, 10],
     defect_type    |-> w.defect_type,
     defect_loc     |-> w.defect_loc,
     length         |-> Typed(w.length),
     rem_wall       |-> FFromDec[w.rem_wall, 100],
     design_factor  |-> FFromDec[w.design_factor, 100]]

(***************************************************************************)
(* run_calculation (lines 86-285).  v is the frame of the call: the        *)
(* arguments, st.session_state.force_3_layers as line 152 reads it, and    *)
(* the local variables assigned so far.  Each operator below is the        *)
(* right-hand side of one assignment of the source, reading the frame.     *)
(***************************************************************************)

\* Mutant of Validate: the second check is skipped once the first has failed.
ValidateFirstOnly(a) ==
    IF FGt[a.temp, MaxTemp] THEN {"CRITICAL: temperature exceeds limit"}
    ELSE IF FGt[a.rem_wall, a.wall] THEN {"INPUT ERROR: remaining wall exceeds nominal"}
    ELSE {}

\* A. VALIDATION: both checks are evaluated, each appends its own error.
Validate(a) ==
    (IF FGt[a.temp, MaxTemp] THEN {"CRITICAL: temperature exceeds limit"} ELSE {})
    \cup
    (IF FGt[a.rem_wall, a.wall]
     THEN {"INPUT ERROR: remaining wall exceeds nominal"} ELSE {})

\* wall_loss_ratio = (wall - rem_wall) / wall
WallLossRatio(v) == FDiv[FSub[v.wall, v.rem_wall], v.wall]

\* is_severe_loss = wall_loss_ratio > 0.65
IsSevereLoss(v) == FGt[v.wall_loss_ratio, SevereLoss]

\* B. REPAIR CLASS, thickness tag
CalcMethodThick(v) ==
    IF v.defect_type = "Corrosion"
    THEN IF v.defect_loc = "External" /\ ~v.is_severe_loss
         THEN "Type A (Load Sharing)"
         ELSE "Type B (Total Replacement)"
    ELSE IF v.defect_type = "Dent" THEN "Type A (Dent Reinforcement)"
    ELSE "Type B (Total Replacement)"

\* B. REPAIR CLASS, overlap tag
CalcMethodOverlap(v) ==
    IF v.defect_type = "Corrosion"
    THEN IF v.defect_loc = "External" /\ ~v.is_severe_loss
         THEN "Type A (Geometry Controlled)"
         ELSE "Type B (Shear Controlled)"
    ELSE "Type B (Shear Controlled)"

\* "Type A" in tag
IsTypeA(tag) ==
    tag \in {"Type A (Load Sharing)", "Type A (Dent Reinforcement)",
             "Type A (Geometry Controlled)"}

\* C. safety_factor = 1.0 / design_factor
SafetyFactor(v) == FDiv[FFromInt[1], v.design_factor]

\* temp_factor = 0.95 if temp > 40 else 1.0
TempFactor(v) ==
    IF FGt[v.temp, FFromInt[TempDerate]] THEN TempFactorHot ELSE TempFactorCold

\* design_strain = (strain_fail * temp_factor) / safety_factor
DesignStrain(v) == FDiv[FMul[StrainFail, v.temp_factor], v.safety_factor]

\* D. pressure_mpa = pressure * 0.1
PressureMpa(v) == FMul[v.pressure, BarToMpa]

\* allowable_steel_stress = yield_strength * design_factor
AllowableSteelStress(v) == FMul[v.yield_strength, v.design_factor]

\* theoretical_capacity = (2 * allowable_steel_stress * rem_wall) / od
TheoreticalCapacity(v) ==
    FDiv[FMul[FMul[FFromInt[2], v.allowable_steel_stress], v.rem_wall], v.od]

\* p_steel_capacity
PSteelCapacity(v) ==
    IF v.defect_type \in {"Leak", "Crack"} \/ v.defect_loc = "Internal" \/ v.is_severe_loss
    THEN FZero
    ELSE v.theoretical_capacity

\* E. p_composite_design
PCompositeDesign(v) ==
    IF IsTypeA(v.calc_method_thick) /\ FGt[v.p_steel_capacity, FZero]
    THEN FMax[FZero, FSub[v.pressure_mpa, v.p_steel_capacity]]
    ELSE v.pressure_mpa

\* 2 * modulus_circ * design_strain, the divisor of line 140
TRequiredDivisor(v) == FMul[FFromInt[2 * ModulusCirc], v.design_strain]

\* t_required = (p_composite_design * od) / (2 * modulus_circ * design_strain), or 0.0
TRequired(v) ==
    IF FGt[v.p_composite_design, FZero]
    THEN FDiv[FMul[v.p_composite_design, v.od], TRequiredDivisor(v)]
    ELSE FZero

\* t_required / ply_thickness, the argument of math.ceil in line 144
PliesQuotient(v) == FDiv[v.t_required, PlyThickness]

\* num_plies = math.ceil(t_required / ply_thickness)
CeilPlies(v) == FCeil[PliesQuotient(v)]

\* Mutant of MinPlies: no separate floor for Leak.
MinPliesNoLeak(v) == ZFromInt[GeneralMinPlies]

\* min_plies
MinPlies(v) ==
    IF v.defect_type = "Leak" THEN ZFromInt[LeakMinPlies] ELSE ZFromInt[GeneralMinPlies]

\* num_plies = max(num_plies, min_plies)
FlooredPlies(v) == ZMax[v.num_plies, v.min_plies]

\* DYNAMIC OVERRIDE: is_upgraded
IsUpgraded(v) == v.force_3_layers /\ ZLt[v.num_plies, ZFromInt[ForcedPlies]]

\* num_plies after the override
NumPlies(v) == IF v.is_upgraded THEN ZFromInt[ForcedPlies] ELSE v.num_plies

\* final_thickness = num_plies * ply_thickness
FinalThickness(v) == FMul[FFromZ[v.num_plies], PlyThickness]

\* hoop_load = final_thickness * modulus_circ * design_strain
HoopLoad(v) == FMul[FMul[v.final_thickness, FFromInt[ModulusCirc]], v.design_strain]

\* allowable_shear = lap_shear / safety_factor
AllowableShear(v) == FDiv[LapShear, v.safety_factor]

\* F. overlap_length
OverlapLength(v) ==
    IF IsTypeA(v.calc_method_overlap)
    THEN FMax[FFromInt[MinOverlap], FMul[FFromInt[TaperMult], v.final_thickness]]
    ELSE FMax[FDiv[HoopLoad(v), AllowableShear(v)], FFromInt[MinOverlap]]

\* total_repair_length_calc = length + (2 * overlap_length)
TotalRepairLength(v) == FAdd[v.length, FMul[FFromInt[2], v.overlap_length]]

\* (total_repair_length_calc - 300) / 250, the argument of math.ceil in line 174
BandsQuotient(v) ==
    FDiv[FSub[v.total_repair_length_calc, FFromInt[BandLength]], FFromInt[BandStep]]

\* G. num_bands
NumBands(v) ==
    IF FLeq[v.total_repair_length_calc, FFromInt[ClothWidth]] THEN ZFromInt[1]
    ELSE ZAdd[FCeil[BandsQuotient(v)], ZFromInt[1]]

\* procurement_axial_length
ProcurementLength(v) ==
    IF FLeq[v.total_repair_length_calc, FFromInt[ClothWidth]] THEN ZFromInt[BandLength]
    ELSE ZMul[v.num_bands, ZFromInt[BandLength]]

\* circumference_m = (math.pi * od) / 1000
CircumferenceM(v) == FDiv[FMul[MathPi, v.od], FFromInt[MmPerM]]

\* axial_procurement_m = procurement_axial_length / 1000
AxialProcurementM(v) == FDivZ[v.procurement_axial_length, ZFromInt[MmPerM]]

\* optimized_sqm = axial_procurement_m * circumference_m * num_plies
OptimizedSqm(v) ==
    FMul[FMul[v.axial_procurement_m, v.circumference_m], FFromZ[v.num_plies]]

\* epoxy_kg = optimized_sqm * 1.2
EpoxyKg(v) == FMul[v.optimized_sqm, EpoxyCoef]

\* The messages of the exceptions of the pipeline; NoException for none.
NoException == ""
ZeroDivisionError == "float division by zero"
CeilOfInfinity == "cannot convert float infinity to integer"
CeilOfNaN == "cannot convert float NaN to integer"
IntTooLarge == "int too large to convert to float"
QuotientTooLarge == "integer division result too large for a float"

\* x / y raises when y == 0.0
DivRaises(y) == IF FIsZero[y] THEN ZeroDivisionError ELSE NoException

\* math.ceil(x) raises on inf and on nan
CeilRaises(x) ==
    IF x.k = "inf" THEN CeilOfInfinity
    ELSE IF x.k = "nan" THEN CeilOfNaN
    ELSE NoException

\* float(n) of an int operand raises when n rounds to 2^1024 or more
FloatRaises(n) == IF FFromZ[n].k = "inf" THEN IntTooLarge ELSE NoException

\* The frames of run_calculation: arguments, session flag, the message of
\* the exception a statement has raised, and the local variables.
Locals ==
    [od : Float, wall : Float, yield_strength : Float, pressure : Float,
     temp : Float, defect_type : Mechanisms, defect_loc : Locations,
     length : Float, rem_wall : Float, design_factor : Float,
     force_3_layers : BOOLEAN, raised : STRING,
     wall_loss_ratio : Float, is_severe_loss : BOOLEAN,
     calc_method_thick : STRING, calc_method_overlap : STRING,
     safety_factor : Float, temp_factor : Float, design_strain : Float,
     pressure_mpa : Float, allowable_steel_stress : Float,
     theoretical_capacity : Float, p_steel_capacity : Float,
     p_composite_design : Float, t_required : Float,
     num_plies : PyInt, min_plies : PyInt, is_upgraded : BOOLEAN,
     final_thickness : Float, overlap_length : Float,
     total_repair_length_calc : Float, num_bands : PyInt,
     procurement_axial_length : PyInt, circumference_m : Float,
     axial_procurement_m : Float, optimized_sqm : Float, epoxy_kg : Float]

\* The frame on entry: the arguments a, the session flag, no local assigned.
Entry(a, force) ==
    [od |-> a.od, wall |-> a.wall, yield_strength |-> a.yield_strength,
     pressure |-> a.pressure, temp |-> a.temp, defect_type |-> a.defect_type,
     defect_loc |-> a.defect_loc, length |-> a.length, rem_wall |-> a.rem_wall,
     design_factor |-> a.design_factor,
     force_3_layers |-> force, raised |-> NoException,
     wall_loss_ratio |-> FZero, is_severe_loss |-> FALSE,
     calc_method_thick |-> "", calc_method_overlap |-> "",
     safety_factor |-> FZero, temp_factor |-> FZero, design_strain |-> FZero,
     pressure_mpa |-> FZero, allowable_steel_stress |-> FZero,
     theoretical_capacity |-> FZero, p_steel_capacity |-> FZero,
     p_composite_design |-> FZero, t_required |-> FZero,
     num_plies |-> ZZero, min_plies |-> ZZero, is_upgraded |-> FALSE,
     final_thickness |-> FZero, overlap_length |-> FZero,
     total_repair_length_calc |-> FZero, num_bands |-> ZZero,
     procurement_axial_length |-> ZZero, circumference_m |-> FZero,
     axial_procurement_m |-> FZero, optimized_sqm |-> FZero, epoxy_kg |-> FZero]

\* Mutant of Program: the 3-layer override runs after the lengths and the
\* material estimate, which keep the unforced ply count.
ProgramOverrideLast ==
    <<"wall_loss_ratio", "is_severe_loss", "calc_method_thick", "calc_method_overlap",
      "safety_factor", "temp_factor", "design_strain",
      "pressure_mpa", "allowable_steel_stress", "theoretical_capacity",
      "p_steel_capacity", "p_composite_design", "t_required",
      "ceil", "min_plies", "max",
      "final_thickness", "overlap_length", "total_repair_length_calc",
      "num_bands", "procurement_axial_length", "circumference_m",
      "axial_procurement_m", "optimized_sqm", "epoxy_kg",
      "is_upgraded", "override">>

\* The assignments of lines 98-181 in source order.  num_plies is assigned
\* three times: the ceiling (line 144), the floor (line 146) and the
\* override (lines 151-154).
Program ==
    <<"wall_loss_ratio", "is_severe_loss", "calc_method_thick", "calc_method_overlap",
      "safety_factor", "temp_factor", "design_strain",
      "pressure_mpa", "allowable_steel_stress", "theoretical_capacity",
      "p_steel_capacity", "p_composite_design", "t_required",
      "ceil", "min_plies", "max", "is_upgraded", "override",
      "final_thickness", "overlap_length", "total_repair_length_calc",
      "num_bands", "procurement_axial_length", "circumference_m",
      "axial_procurement_m", "optimized_sqm", "epoxy_kg">>

\* The exception a statement raises in the frame v, NoException when it
\* raises none.  A float division raises ZeroDivisionError on a divisor 0.0:
\* an argument (wall, line 98; design_factor, line 119; od, line 126) or a
\* local that has underflowed (lines 121, 140, 164, 165).  math.ceil raises
\* OverflowError on inf and ValueError on nan (lines 144, 174).  An int too
\* large for a float raises OverflowError where it meets a float (lines 156,
\* 180) or is divided (line 178).
Raises(v, stmt) ==
    CASE stmt = "wall_loss_ratio" -> DivRaises(v.wall)
      [] stmt = "safety_factor" -> DivRaises(v.design_factor)
      [] stmt = "design_strain" -> DivRaises(v.safety_factor)
      [] stmt = "theoretical_capacity" -> DivRaises(v.od)
      [] stmt = "t_required" ->
             IF FGt[v.p_composite_design, FZero]
             THEN DivRaises(TRequiredDivisor(v)) ELSE NoException
      [] stmt = "ceil" -> CeilRaises(PliesQuotient(v))
      [] stmt = "final_thickness" -> FloatRaises(v.num_plies)
      [] stmt = "overlap_length" ->
             IF IsTypeA(v.calc_method_overlap) THEN NoException
             ELSE IF FIsZero[v.safety_factor] THEN ZeroDivisionError
             ELSE DivRaises(AllowableShear(v))
      [] stmt = "num_bands" ->
             IF FLeq[v.total_repair_length_calc, FFromInt[ClothWidth]] THEN NoException
             ELSE CeilRaises(BandsQuotient(v))
      [] stmt = "axial_procurement_m" ->
             IF AxialProcurementM(v).k = "inf" THEN QuotientTooLarge ELSE NoException
      [] stmt = "optimized_sqm" -> FloatRaises(v.num_plies)
      [] OTHER -> NoException

\* The frame after the assignment stmt.
Assign(v, stmt) ==
    CASE stmt = "wall_loss_ratio" -> [v EXCEPT !.wall_loss_ratio = WallLossRatio(v)]
      [] stmt = "is_severe_loss" -> [v EXCEPT !.is_severe_loss = IsSevereLoss(v)]
      [] stmt = "calc_method_thick" -> [v EXCEPT !.calc_method_thick = CalcMethodThick(v)]
      [] stmt = "calc_method_overlap" ->
             [v EXCEPT !.calc_method_overlap = CalcMethodOverlap(v)]
      [] stmt = "safety_factor" -> [v EXCEPT !.safety_factor = SafetyFactor(v)]
      [] stmt = "temp_factor" -> [v EXCEPT !.temp_factor = TempFactor(v)]
      [] stmt = "design_strain" -> [v EXCEPT !.design_strain = DesignStrain(v)]
      [] stmt = "pressure_mpa" -> [v EXCEPT !.pressure_mpa = PressureMpa(v)]
      [] stmt = "allowable_steel_stress" ->
             [v EXCEPT !.allowable_steel_stress = AllowableSteelStress(v)]
      [] stmt = "theoretical_capacity" ->
             [v EXCEPT !.theoretical_capacity = TheoreticalCapacity(v)]
      [] stmt = "p_steel_capacity" -> [v EXCEPT !.p_steel_capacity = PSteelCapacity(v)]
      [] stmt = "p_composite_design" ->
             [v EXCEPT !.p_composite_design = PCompositeDesign(v)]
      [] stmt = "t_required" -> [v EXCEPT !.t_required = TRequired(v)]
      [] stmt = "ceil" -> [v EXCEPT !.num_plies = CeilPlies(v)]
      [] stmt = "min_plies" -> [v EXCEPT !.min_plies = MinPlies(v)]
      [] stmt = "max" -> [v EXCEPT !.num_plies = FlooredPlies(v)]
      [] stmt = "is_upgraded" -> [v EXCEPT !.is_upgraded = IsUpgraded(v)]
      [] stmt = "override" -> [v EXCEPT !.num_plies = NumPlies(v)]
      [] stmt = "final_thickness" -> [v EXCEPT !.final_thickness = FinalThickness(v)]
      [] stmt = "overlap_length" -> [v EXCEPT !.overlap_length = OverlapLength(v)]
      [] stmt = "total_repair_length_calc" ->
             [v EXCEPT !.total_repair_length_calc = TotalRepairLength(v)]
      [] stmt = "num_bands" -> [v EXCEPT !.num_bands = NumBands(v)]
      [] stmt = "procurement_axial_length" ->
             [v EXCEPT !.procurement_axial_length = ProcurementLength(v)]
      [] stmt = "circumference_m" -> [v EXCEPT !.circumference_m = CircumferenceM(v)]
      [] stmt = "axial_procurement_m" ->
             [v EXCEPT !.axial_procurement_m = AxialProcurementM(v)]
      [] stmt = "optimized_sqm" -> [v EXCEPT !.optimized_sqm = OptimizedSqm(v)]
      [] stmt = "epoxy_kg" -> [v EXCEPT !.epoxy_kg = EpoxyKg(v)]

\* One statement: it raises, or it assigns.
Step(v, stmt) ==
    IF Raises(v, stmt) # NoException THEN [v EXCEPT !.raised = Raises(v, stmt)]
    ELSE Assign(v, stmt)

\* The frame after statements i.. of Program, stopping where one raises.
Execute[v \in Locals, i \in Nat] ==
    IF v.raised # NoException \/ i > Len(Program) THEN v
    ELSE Execute[Step(v, Program[i]), i + 1]

NoReport == [produced |-> FALSE]

\* H. report_data (lines 184-192), with the locals section I displays or
\* branches on.
ReportData(v) ==
    [produced            |-> TRUE,
     wall_loss_ratio     |-> v.wall_loss_ratio,
     calc_method_thick   |-> v.calc_method_thick,
     calc_method_overlap |-> v.calc_method_overlap,
     sf                  |-> v.safety_factor,
     design_strain       |-> v.design_strain,
     p_steel_capacity    |-> v.p_steel_capacity,
     p_composite_design  |-> v.p_composite_design,
     t_required          |-> v.t_required,
     num_plies           |-> v.num_plies,
     is_upgraded         |-> v.is_upgraded,
     final_thickness     |-> v.final_thickness,
     overlap_length      |-> v.overlap_length,
     iso_length          |-> v.total_repair_length_calc,
     num_bands           |-> v.num_bands,
     proc_length         |-> v.procurement_axial_length,
     optimized_sqm       |-> v.optimized_sqm,
     epoxy_kg            |-> v.epoxy_kg]

\* The PROTAP button of lines 206-213 is rendered in this run.
UpgradeOffered(v) == v.num_plies = ZFromInt[2] /\ ~v.is_upgraded

\* What the call has done when the frame v is left: an exception has
\* escaped, or the report is rendered and, when offered, the button.
Outcome[v \in Locals] ==
    IF v.raised # NoException
    THEN [errors |-> {}, raised |-> v.raised, report |-> NoReport, button |-> FALSE]
    ELSE [errors |-> {}, raised |-> NoException, report |-> ReportData(v),
          button |-> UpgradeOffered(v)]

\* One call: it shows the validation errors and returns (lines 93-95), or
\* runs the statements to the report or to the exception.
run_calculation[a \in Args, force \in BOOLEAN] ==
    IF Validate(a) # {}
    THEN [errors |-> Validate(a), raised |-> NoException, report |-> NoReport,
          button |-> FALSE]
    ELSE Outcome[Execute[Entry(a, force), 1]]

(***************************************************************************)
(* The Streamlit session (main, lines 287-331).  Every operator event      *)
(* runs the script from the top; an action is one script run.              *)
(***************************************************************************)

\* The widget defaults of lines 304-319.
Defaults ==
    [od |-> [n |-> 4572, k |-> -1], wall |-> 953, yield_strength |-> 359,
     pressure |-> [n |-> 50, k |-> 0], temp |-> 400,
     defect_type |-> "Corrosion", defect_loc |-> "External",
     length |-> [n |-> 100, k |-> 0], rem_wall |-> 450, design_factor |-> 72]

\* Number of steps of design pressure the calculation is explored on, and the
\* size of a step in bar.
MaxPressureSteps == 3
PressureStep == 50

\* The design pressures of the grid.
Pressures == {[n |-> PressureStep * i, k |-> 0] : i \in 0..MaxPressureSteps}

\* The values the operator types into each widget in the session model.
UiValues ==
    [od |-> {[n |-> 4572, k |-> -1], [n |-> 0, k |-> 0]}, wall |-> {953},
     yield_strength |-> {359},
     pressure |-> {[n |-> 50, k |-> 0], [n |-> 150, k |-> 0]}, temp |-> {400},
     defect_type |-> Mechanisms, defect_loc |-> {"External"},
     length |-> {[n |-> 100, k |-> 0]}, rem_wall |-> {450, 1000},
     design_factor |-> {72}]

\* Nominal and remaining wall: 53% loss, exactly 65% loss twice (5.40/1.89 and
\* 20.00/7.00), 70% loss, a negative remaining wall, and one above nominal.
WallPairs == {<<953, 450>>, <<540, 189>>, <<2000, 700>>, <<2000, 600>>,
              <<953, -100>>, <<953, 1000>>}

\* Inputs the widgets accept that make a float division fail.
ZeroArgs ==
    {[Defaults EXCEPT !.od = [n |-> 0, k |-> 0]],
     [Defaults EXCEPT !.wall = 0, !.rem_wall = 0],
     [Defaults EXCEPT !.wall = 0, !.rem_wall = -100],
     [Defaults EXCEPT !.wall = 0, !.rem_wall = -100, !.temp = 556]}

\* Diameters the od widget accepts besides the default: a negative one, one
\* of 1e200 mm and a subnormal one.
WideOds == {[n |-> -4572, k |-> -1], [n |-> 1, k |-> 200], [n |-> 1, k |-> -320]}

\* Pressures the widget accepts beyond the grid: with od = 1e200 the first
\* overflows the hoop load of line 163, the second the product of line 140.
WidePressures == {[n |-> 1, k |-> 108], [n |-> 1, k |-> 200]}

\* Inputs of extreme magnitude, which the widgets of lines 304-319 accept:
\* the wide diameters at every pressure, and a defect of 3e18 mm.
WideArgs ==
    {[Defaults EXCEPT !.od = d, !.pressure = p, !.defect_type = m] :
        d \in WideOds, p \in Pressures \cup WidePressures, m \in Mechanisms}
    \cup
    {[Defaults EXCEPT !.length = [n |-> 3, k |-> 18], !.defect_type = m] :
        m \in Mechanisms}

\* The argument records the calculation is explored on.
CalcArgs ==
    {[od |-> Defaults.od, wall |-> wr[1], yield_strength |-> 359,
      pressure |-> p, temp |-> t, defect_type |-> m,
      defect_loc |-> l, length |-> [n |-> len, k |-> 0], rem_wall |-> wr[2],
      design_factor |-> f] :
        wr \in WallPairs, p \in Pressures, t \in {400, 555, 556},
        m \in Mechanisms, l \in Locations, len \in {200, 450}, f \in {10, 72}}
    \cup ZeroArgs \cup WideArgs

NoMemo == [taken |-> FALSE]

\* The record of one invocation: its arguments and what it did.
Invocation(w, out) == [taken |-> TRUE, args |-> w, out |-> out]

\* st.error(f"Application Error: {e}") of line 331
ApplicationError(e) ==
    CASE e = ZeroDivisionError -> "Application Error: float division by zero"
      [] e = CeilOfInfinity -> "Application Error: cannot convert float infinity to integer"
      [] e = CeilOfNaN -> "Application Error: cannot convert float NaN to integer"
      [] e = IntTooLarge -> "Application Error: int too large to convert to float"
      [] e = QuotientTooLarge ->
             "Application Error: integer division result too large for a float"

\* main's handler (lines 330-331) shows the message of an exception that
\* escapes run_calculation.
PageErrors(out) ==
    IF out.raised # NoException THEN {ApplicationError(out.raised)} ELSE out.errors

\* The session right after the first script run: nothing calculated yet.
Init ==
    /\ widgets = Defaults
    /\ calc_active = FALSE
    /\ force_3_layers = FALSE
    /\ errors = {}
    /\ result = NoReport
    /\ upgrade_button = FALSE
    /\ rerun_pending = FALSE
    /\ upgrade_clicked = FALSE
    /\ last_event = "init"
    /\ memo = NoMemo

\* Line 328 with the widgets w and the flag f: what the page shows afterwards.
\* memo may keep this invocation for a later comparison.
Show(w, f) ==
    \E out \in {run_calculation[NumberInputs(w), f]} :
        /\ errors' = PageErrors(out)
        /\ result' = out.report
        /\ upgrade_button' = out.button
        /\ memo' \in {memo, Invocation(w, out)}

\* Mutant of ClickCalculate: the 3-layer override is not reset.
ClickCalculateKeepFlag ==
    /\ ~rerun_pending
    /\ calc_active' = TRUE
    /\ Show(widgets, force_3_layers)
    /\ upgrade_clicked' = FALSE
    /\ last_event' = "calculate"
    /\ UNCHANGED <<widgets, force_3_layers, rerun_pending>>

\* The operator clicks "Calculate & Optimize" (lines 322-328): the flags are
\* set, then line 328 runs.  The script runner starts a rerun that
\* st.rerun() asked for before it serves another event.
ClickCalculate ==
    /\ ~rerun_pending
    /\ calc_active' = TRUE
    /\ force_3_layers' = FALSE
    /\ Show(widgets, FALSE)
    /\ upgrade_clicked' = FALSE
    /\ last_event' = "calculate"
    /\ UNCHANGED <<widgets, rerun_pending>>

\* The operator clicks the PROTAP button.  The script run of the click calls
\* run_calculation with the flag as it is (line 328), renders the result and
\* the button again, sets the flag (line 212) and stops at st.rerun() (line
\* 213); the rerun it asked for is a later script run.
ClickUpgrade ==
    /\ upgrade_button
    /\ ~rerun_pending
    /\ Show(widgets, force_3_layers)
    /\ upgrade_button'
    /\ force_3_layers' = TRUE
    /\ rerun_pending' = TRUE
    /\ upgrade_clicked' = TRUE
    /\ last_event' = "upgrade"
    /\ UNCHANGED <<widgets, calc_active>>

\* The script run st.rerun() asked for: main from the top, no button clicked.
Rerun ==
    /\ rerun_pending
    /\ IF calc_active
       THEN Show(widgets, force_3_layers)
       ELSE UNCHANGED <<errors, result, upgrade_button, memo>>
    /\ rerun_pending' = FALSE
    /\ last_event' = "rerun"
    /\ UNCHANGED <<widgets, calc_active, force_3_layers, upgrade_clicked>>

\* The operator changes one widget; the script runs and, once a calculation
\* is active, recalculates with the session's flag (lines 327-328).
EditInput ==
    \E f \in DOMAIN UiValues : \E v \in UiValues[f] :
        /\ ~rerun_pending
        /\ v # widgets[f]
        /\ widgets' = [widgets EXCEPT ![f] = v]
        /\ IF calc_active
           THEN Show(widgets', force_3_layers)
           ELSE UNCHANGED <<errors, result, upgrade_button, memo>>
        /\ last_event' = "edit"
        /\ UNCHANGED <<calc_active, force_3_layers, upgrade_clicked, rerun_pending>>

Next == ClickCalculate \/ ClickUpgrade \/ Rerun \/ EditInput

Spec == Init /\ [][Next]_vars

(***************************************************************************)
(* The calculation on its own: any argument record and either value of     *)
(* the session flag at the call of line 328, then the call.                *)
(***************************************************************************)
InitCalc ==
    /\ widgets \in CalcArgs
    /\ calc_active = TRUE
    /\ force_3_layers \in BOOLEAN
    /\ errors = {}
    /\ result = NoReport
    /\ upgrade_button = FALSE
    /\ rerun_pending = FALSE
    /\ upgrade_clicked = force_3_layers
    /\ last_event = "call"
    /\ memo = NoMemo

\* The call of line 328 runs to its return or to main's exception handler.
RunCalculation ==
    /\ last_event = "call"
    /\ calc_active
    /\ \E out \in {run_calculation[NumberInputs(widgets), force_3_layers]} :
           /\ errors' = PageErrors(out)
           /\ result' = out.report
           /\ upgrade_button' = out.button
    /\ last_event' = "return"
    /\ UNCHANGED <<widgets, calc_active, force_3_layers, rerun_pending,
                   upgrade_clicked, memo>>

NextCalc == RunCalculation

SpecCalc == InitCalc /\ [][NextCalc]_vars

(***************************************************************************)
(* Properties.  Returned: the call of SpecCalc has run to its return.      *)
(***************************************************************************)
Returned == last_event = "return"

\* C1: for every input that passes validation and whose calculation runs to
\* its result, the ply count is at least 4 when the mechanism is Leak (also at
\* design pressure 0), at least 2 for every other mechanism, and at least 3
\* when force_3_layers is on.
C1_PlyFloor ==
    (Returned /\ result.produced) =>
        /\ ZLeq[ZFromInt[2], result.num_plies]
        /\ (widgets.defect_type = "Leak" => ZLeq[ZFromInt[4], result.num_plies])
        /\ (force_3_layers => ZLeq[ZFromInt[3], result.num_plies])

\* A Leak at design pressure 0 has returned with exactly 4 plies.
C1_Witness ==
    /\ Returned
    /\ widgets.defect_type = "Leak"
    /\ widgets.pressure.n = 0
    /\ result.produced
    /\ result.num_plies = ZFromInt[4]

\* C2: the pair of repair-class tags matches the decision table: Leak or Crack
\* gives Type B for both; Corrosion gives Type A for both when the location is
\* External and wall loss is at most 65%, and Type B for both when the
\* location is Internal or wall loss exceeds 65%; Dent gives Type A for
\* thickness and Type B for overlap.  Wall loss is (wall - rem_wall) / wall of
\* the typed thicknesses.
C2_DecisionTable ==
    (Returned /\ result.produced) =>
        LET mech     == widgets.defect_type
            external == widgets.defect_loc = "External"
            atMost65 == 100 * (widgets.wall - widgets.rem_wall) <= SevereLossPct * widgets.wall
            thick    == result.calc_method_thick
            overlap  == result.calc_method_overlap
        IN  /\ mech \in {"Leak", "Crack"} =>
                /\ thick = "Type B (Total Replacement)"
                /\ overlap = "Type B (Shear Controlled)"
            /\ (mech = "Corrosion" /\ external /\ atMost65) =>
                /\ thick = "Type A (Load Sharing)"
                /\ overlap = "Type A (Geometry Controlled)"
            /\ (mech = "Corrosion" /\ ~(external /\ atMost65)) =>
                /\ thick = "Type B (Total Replacement)"
                /\ overlap = "Type B (Shear Controlled)"
            /\ mech = "Dent" =>
                /\ thick = "Type A (Dent Reinforcement)"
                /\ overlap = "Type B (Shear Controlled)"

\* C3: when the temperature exceeds 55.5 C or the remaining wall exceeds the
\* nominal wall, no result record is produced and every violated check is
\* reported, both when both hold.
C3_ValidationReportsAll ==
    Returned =>
        LET tooHot   == widgets.temp > MaxTempT
            tooThick == widgets.rem_wall > widgets.wall
        IN  /\ (tooHot \/ tooThick) => (~result.produced /\ ~upgrade_button)
            /\ tooHot <=> "CRITICAL: temperature exceeds limit" \in errors
            /\ tooThick <=> "INPUT ERROR: remaining wall exceeds nominal" \in errors

\* Both checks were violated and both errors are shown, with no result.
C3_Witness ==
    /\ Returned
    /\ widgets.temp = 556
    /\ widgets.rem_wall > widgets.wall
    /\ Cardinality(errors) = 2
    /\ ~result.produced

\* C4: when the remaining wall thickness is negative the pipeline aborts with
\* a validation error and produces no result record.
C4_NegativeWallAborts ==
    (Returned /\ widgets.rem_wall < 0) =>
        /\ ~result.produced
        /\ \/ "CRITICAL: temperature exceeds limit" \in errors
           \/ "INPUT ERROR: remaining wall exceeds nominal" \in errors

\* C5: two invocations of run_calculation with identical arguments display
\* identical outputs, whatever the operator did in between.  memo is any
\* earlier invocation; errors, result and upgrade_button are the latest one.
C5_Idempotent ==
    (calc_active /\ memo.taken /\ memo.args = widgets) =>
        /\ PageErrors(memo.out) = errors
        /\ memo.out.report = result
        /\ memo.out.button = upgrade_button

\* C6: of two valid inputs that differ only in design pressure and both
\* produce a result, the one with the higher pressure has a required
\* thickness and a ply count that are not smaller, for the Type A and the
\* Type B thickness class alike.
C6_PressureMonotone ==
    (Returned /\ result.produced) =>
        \A p \in Pressures \cup WidePressures :
            FGt[Typed(p), Typed(widgets.pressure)] =>
                LET hi == run_calculation[NumberInputs([widgets EXCEPT !.pressure = p]),
                                          force_3_layers].report
                IN  hi.produced =>
                        /\ FLeq[result.t_required, hi.t_required]
                        /\ ZLeq[result.num_plies, hi.num_plies]

\* The frame of an upgraded call right after the override of lines 151-154,
\* as the report r of widgets w shows it: 3 plies, r's tags, strain and
\* safety factor.
Forced(w, r) ==
    [Entry(NumberInputs(w), TRUE) EXCEPT
        !.num_plies = ZFromInt[ForcedPlies], !.is_upgraded = TRUE,
        !.calc_method_overlap = r.calc_method_overlap,
        !.design_strain = r.design_strain, !.safety_factor = r.sf]

C8_CompositePressure ==
    (Returned /\ result.produced) =>
        LET a        == NumberInputs(widgets)
            full     == FMul[a.pressure, BarToMpa]
            barlow   == FDiv[FMul[FMul[FFromInt[2],
                                       FMul[a.yield_strength, a.design_factor]],
                                  a.rem_wall], a.od]
            untrusted ==
                \/ widgets.defect_type \in {"Leak", "Crack"}
                \/ widgets.defect_loc = "Internal"
                \/ 100 * (widgets.wall - widgets.rem_wall) > SevereLossPct * widgets.wall
        IN  result.p_composite_design =
                IF untrusted THEN full ELSE FMax[FZero, FSub[full, barlow]]

\* C9: force_3_layers is on only if the operator clicked the upgrade button
\* since the most recent Calculate click; the upgrade button is offered only
\* with a result of exactly 2 plies that is not upgraded; and a Calculate
\* click clears the flag before its calculation runs.
C9_OverrideFlag ==
    /\ force_3_layers => upgrade_clicked
    /\ upgrade_button =>
           (result.produced /\ result.num_plies = ZFromInt[2] /\ ~result.is_upgraded)
    /\ last_event = "calculate" =>
           (~force_3_layers /\ (result.produced => ~result.is_upgraded))

\* A Calculate click right after an upgraded run of the same inputs: the
\* earlier invocation was upgraded, the new one is back to 2 plies.
C9_Witness ==
    /\ last_event = "calculate"
    /\ memo.taken
    /\ memo.args = widgets
    /\ memo.out.report.produced
    /\ memo.out.report.is_upgraded
    /\ result.produced
    /\ result.num_plies = ZFromInt[2]
    /\ upgrade_button

\* C10: in every result the bands cover the repair: 300 + 250 * (bands - 1)
\* is at least the total repair length, no smaller band count does, and the
\* procurement length bands * 300 is at least the total repair length.
C10_BandsCover ==
    (Returned /\ result.produced) =>
        LET b == result.num_bands
            covered == ZAdd[ZFromInt[BandLength],
                            ZMul[ZFromInt[BandStep], ZAdd[b, ZFromInt[-1]]]]
            one_less == ZAdd[covered, ZFromInt[-BandStep]]
        IN  /\ ZLeq[ZFromInt[1], b]
            /\ FLeq[result.iso_length, FFromZ[covered]]
            /\ ZLt[ZFromInt[1], b] => FGt[result.iso_length, FFromZ[one_less]]
            /\ result.proc_length = ZMul[b, ZFromInt[BandLength]]
            /\ FLeq[result.iso_length, FFromZ[result.proc_length]]

====
